---- MODULE Spec2Model ----
(***************************************************************************)
(* A model of apps/dsaparam.c: one run of dsaparam_main, from option       *)
(* parsing to the return, as a state machine over the function's locals,   *)
(* the resources it acquires and the records it writes to its streams.     *)
(* The external library (BIO, EVP_PKEY, PEM/DER codecs, the option parser) *)
(* is the environment: each call into it that can fail either succeeds or  *)
(* fails, chosen nondeterministically.                                     *)
(***************************************************************************)
EXTENDS Integers, Sequences, FiniteSets

VARIABLES
    pc,         \* position in dsaparam_main
    infile,     \* char *infile          "NULL" or "file"
    outfile,    \* char *outfile         "NULL" or "file"
    informat,   \* int informat          "PEM" or "ASN1"
    outformat,  \* int outformat         "PEM" or "ASN1"
    text,       \* int text
    C,          \* int C
    genkey,     \* int genkey
    noout,      \* int noout (overwritten at line 242)
    nooutOpt,   \* history: whether -noout was given on the command line
    verbose,    \* static int verbose
    nrest,      \* argc after opt_num_rest()
    num,        \* int num
    numbits,    \* int numbits
    private,    \* int private
    in,         \* BIO *in
    out,        \* BIO *out
    ctx,        \* EVP_PKEY_CTX *ctx
    params,     \* EVP_PKEY *params
    pkey,       \* EVP_PKEY *pkey
    ret,        \* int ret
    res,        \* state of every resource the run can acquire
    log,        \* every read/write call made on a stream, in order
    from,       \* history: the position from which control went to `end`
    cb,         \* the invocation of gendsa_cb in progress inside paramgen
    ncb,        \* the number of invocations made by the current paramgen
    nprog,      \* the progress characters the run wrote to bio_err
    bits,       \* the bit length set on the generation context
    pv,         \* the value <<p, q, g>> of params
    frag,       \* the source-code fragment the run printed
    run,        \* which run of dsaparam_main in the process this is
    vflag       \* history: whether -verbose was given to this run

vars == <<pc, infile, outfile, informat, outformat, text, C, genkey, noout,
          nooutOpt, verbose, nrest, num, numbits, private, in, out, ctx,
          params, pkey, ret, res, log, from, cb, ncb, nprog, bits, pv, frag,
          run, vflag>>

(***************************************************************************)
(* Bounds and program constants.                                           *)
(***************************************************************************)
\* the largest requested bit length is the ceiling plus MaxOver
MaxOver == 1

\* the largest number of positional arguments left after the options
MaxRest == 2

OPENSSL_DSA_MAX_MODULUS_BITS == 10000

\* the most invocations of the progress callback one generation makes
MaxCb == 2

\* the largest progress signal the library passes to the callback
MaxSignal == 4

\* the most runs of dsaparam_main in one process
MaxRuns == 2

\* the progress signals: keygen info 0..3, and values outside that range
Signals == -1..MaxSignal

\* the DomainParameters <<p, q, g>> the library can generate or decode
ParamChoices == {<<7, 3, 2>>, <<23, 11, 2>>, <<263, 131, 4>>}

\* the values a single positional argument can parse to
NumChoices ==
    {-1, 0, 1} \cup
    {OPENSSL_DSA_MAX_MODULUS_BITS + k : k \in 0..MaxOver}

Formats == {"PEM", "ASN1"}

Resources ==
    {"in", "out", "ctx1", "ctx2", "params", "pkey", "data",
     "bn_p", "bn_q", "bn_g"}

\* the artifacts of a run, in the order the code produces them
Artifacts == {"text", "C", "params", "pkey"}

(***************************************************************************)
(* Helpers.                                                                *)
(***************************************************************************)
\* a call on a stream: s the stream, w what was read or written,
\* f its format, ok whether the call succeeded
Rec(s, w, f, ok) == [s |-> s, w |-> w, f |-> f, ok |-> ok]

\* BIO_printf(bio_err, ...), ERR_print_errors(bio_err)
Err(w) == Rec("bio_err", w, "-", TRUE)

\* the message a library helper (opt_int, opt_rand, opt_provider,
\* bio_open_default, bio_open_owner) prints on bio_err when it fails
CalleeDiag(fn) == <<Err(fn)>>

\* allocation of resource r
Acquire(rs, r) == [rs EXCEPT ![r] = "held"]

\* X_free(ptr): a no-op on NULL, a double free when already released
Free(rs, ptr) ==
    IF ptr = "NULL" THEN rs
    ELSE [rs EXCEPT ![ptr] = IF rs[ptr] = "held" THEN "freed" ELSE "freed2"]

\* goto end
GotoEnd == pc' = "end" /\ from' = pc

Init ==
    /\ pc = "opts"
    /\ infile = "NULL" /\ outfile = "NULL"
    /\ informat = "PEM" /\ outformat = "PEM"
    /\ text = 0 /\ C = 0 /\ genkey = 0 /\ noout = 0 /\ nooutOpt = 0
    /\ verbose = 0
    /\ nrest = 0 /\ num = 0 /\ numbits = -1 /\ private = 0
    /\ in = "NULL" /\ out = "NULL" /\ ctx = "NULL"
    /\ params = "NULL" /\ pkey = "NULL"
    /\ ret = 1
    /\ res = [r \in Resources |-> "none"]
    /\ log = <<>>
    /\ from = "none"
    /\ cb = <<>> /\ ncb = 0 /\ nprog = 0
    /\ bits = 0 /\ pv = <<>> /\ frag = <<>>
    /\ run = 1 /\ vflag = 0


optVars == <<infile, outfile, informat, outformat, text, C, genkey, noout,
             nooutOpt, verbose>>
argVars == <<nrest, num, numbits, private>>
ptrVars == <<in, out, ctx, params, pkey>>
cbVars == <<cb, ncb, nprog>>

(***************************************************************************)
(* The option loop, lines 78-131: one action per case of the switch.       *)
(***************************************************************************)
OptHelpLabel_GoesOn ==
    /\ log' = Append(log, Err("Use -help for summary"))
    /\ UNCHANGED <<pc, from, optVars, argVars, ptrVars, ret, res>>

\* the opthelp label, lines 83-85
OptHelpLabel ==
    /\ log' = Append(log, Err("Use -help for summary"))
    /\ GotoEnd
    /\ UNCHANGED <<optVars, argVars, ptrVars, ret, res>>

\* case OPT_ERR
OptErr ==
    /\ pc = "opts"
    /\ OptHelpLabel
    /\ UNCHANGED <<cb, ncb, nprog, bits, pv, frag, run, vflag>>

\* case OPT_HELP
OptHelp ==
    /\ pc = "opts"
    /\ log' = Append(log, Err("opt_help"))
    /\ ret' = 0
    /\ GotoEnd
    /\ UNCHANGED <<optVars, argVars, ptrVars, res>>
    /\ UNCHANGED <<cb, ncb, nprog, bits, pv, frag, run, vflag>>

\* case OPT_INFORM: opt_format accepts PEM and DER only
OptInform ==
    /\ pc = "opts"
    /\ \E f \in Formats \cup {"bad"} :
         IF f = "bad"
         THEN OptHelpLabel
         ELSE /\ informat' = f
              /\ UNCHANGED <<pc, from, infile, outfile, outformat, text, C,
                             genkey, noout, nooutOpt, verbose, argVars,
                             ptrVars, ret, res, log>>
    /\ UNCHANGED <<cb, ncb, nprog, bits, pv, frag, run, vflag>>

\* case OPT_IN
OptIn ==
    /\ pc = "opts"
    /\ infile' = "file"
    /\ UNCHANGED <<pc, from, outfile, informat, outformat, text, C, genkey,
                   noout, nooutOpt, verbose, argVars, ptrVars, ret, res, log>>
    /\ UNCHANGED <<cb, ncb, nprog, bits, pv, frag, run, vflag>>

\* case OPT_OUTFORM
OptOutform ==
    /\ pc = "opts"
    /\ \E f \in Formats \cup {"bad"} :
         IF f = "bad"
         THEN OptHelpLabel
         ELSE /\ outformat' = f
              /\ UNCHANGED <<pc, from, infile, outfile, informat, text, C,
                             genkey, noout, nooutOpt, verbose, argVars,
                             ptrVars, ret, res, log>>
    /\ UNCHANGED <<cb, ncb, nprog, bits, pv, frag, run, vflag>>

\* case OPT_OUT
OptOut ==
    /\ pc = "opts"
    /\ outfile' = "file"
    /\ UNCHANGED <<pc, from, infile, informat, outformat, text, C, genkey,
                   noout, nooutOpt, verbose, argVars, ptrVars, ret, res, log>>
    /\ UNCHANGED <<cb, ncb, nprog, bits, pv, frag, run, vflag>>

\* case OPT_TEXT
OptText ==
    /\ pc = "opts"
    /\ text' = 1
    /\ UNCHANGED <<pc, from, infile, outfile, informat, outformat, C, genkey,
                   noout, nooutOpt, verbose, argVars, ptrVars, ret, res, log>>
    /\ UNCHANGED <<cb, ncb, nprog, bits, pv, frag, run, vflag>>

\* case OPT_C
OptC ==
    /\ pc = "opts"
    /\ C' = 1
    /\ UNCHANGED <<pc, from, infile, outfile, informat, outformat, text,
                   genkey, noout, nooutOpt, verbose, argVars, ptrVars, ret,
                   res, log>>
    /\ UNCHANGED <<cb, ncb, nprog, bits, pv, frag, run, vflag>>

\* case OPT_GENKEY
OptGenkey ==
    /\ pc = "opts"
    /\ genkey' = 1
    /\ UNCHANGED <<pc, from, infile, outfile, informat, outformat, text, C,
                   noout, nooutOpt, verbose, argVars, ptrVars, ret, res, log>>
    /\ UNCHANGED <<cb, ncb, nprog, bits, pv, frag, run, vflag>>

\* case OPT_R_CASES, case OPT_PROV_CASES: a failure goes to end with no
\* message of this function's own
OptRandProv ==
    /\ pc = "opts"
    /\ \E ok \in BOOLEAN :
         IF ok
         THEN UNCHANGED vars
         ELSE /\ log' = log \o CalleeDiag("opt_rand")
              /\ GotoEnd
              /\ UNCHANGED <<optVars, argVars, ptrVars, ret, res>>
    /\ UNCHANGED <<cb, ncb, nprog, bits, pv, frag, run, vflag>>

\* case OPT_NOOUT
OptNoout ==
    /\ pc = "opts"
    /\ noout' = 1
    /\ nooutOpt' = 1
    /\ UNCHANGED <<pc, from, infile, outfile, informat, outformat, text, C,
                   genkey, verbose, argVars, ptrVars, ret, res, log>>
    /\ UNCHANGED <<cb, ncb, nprog, bits, pv, frag, run, vflag>>

\* case OPT_VERBOSE
OptVerbose ==
    /\ pc = "opts"
    /\ verbose' = 1
    /\ vflag' = 1
    /\ UNCHANGED <<pc, from, infile, outfile, informat, outformat, text, C,
                   genkey, noout, nooutOpt, argVars, ptrVars, ret, res, log>>
    /\ UNCHANGED <<cb, ncb, nprog, bits, pv, frag, run>>

\* opt_next() returns OPT_EOF: the loop ends
OptEOF ==
    /\ pc = "opts"
    /\ pc' = "args"
    /\ UNCHANGED <<from, optVars, argVars, ptrVars, ret, res, log>>
    /\ UNCHANGED <<cb, ncb, nprog, bits, pv, frag, run, vflag>>

(***************************************************************************)
(* Positional arguments and the private flag, lines 132-141.               *)
(***************************************************************************)
PrivateOf_Never(g) == 0

\* line 141
PrivateOf(g) == IF g = 1 THEN 1 ELSE 0

ParseArgs ==
    /\ pc = "args"
    /\ \E n \in 0..MaxRest, parsed \in BOOLEAN, v \in NumChoices :
         /\ nrest' = n
         /\ IF n = 1
            THEN IF ~parsed \/ v < 0
                 THEN /\ num' = IF parsed THEN v ELSE num
                      /\ log' = IF parsed THEN log
                                 ELSE log \o CalleeDiag("opt_int")
                      /\ GotoEnd
                      /\ UNCHANGED <<numbits, private>>
                 ELSE /\ num' = v
                      /\ numbits' = v
                      /\ private' = PrivateOf(genkey)
                      /\ pc' = "open_in"
                      /\ UNCHANGED <<from, log>>
            ELSE /\ private' = PrivateOf(genkey)
                 /\ pc' = "open_in"
                 /\ UNCHANGED <<num, numbits, from, log>>
    /\ UNCHANGED <<optVars, ptrVars, ret, res>>
    /\ UNCHANGED <<cb, ncb, nprog, bits, pv, frag, run, vflag>>

(***************************************************************************)
(* Streams and the generation context, lines 143-156.                      *)
(***************************************************************************)
\* lines 143-145
OpenIn ==
    /\ pc = "open_in"
    /\ \E ok \in BOOLEAN :
         IF ok
         THEN /\ in' = "in"
              /\ res' = Acquire(res, "in")
              /\ pc' = "open_out"
              /\ UNCHANGED <<from, log>>
         ELSE /\ log' = log \o CalleeDiag("bio_open_default")
              /\ GotoEnd
              /\ UNCHANGED <<in, res>>
    /\ UNCHANGED <<optVars, argVars, out, ctx, params, pkey, ret>>
    /\ UNCHANGED <<cb, ncb, nprog, bits, pv, frag, run, vflag>>

\* lines 146-148
OpenOut ==
    /\ pc = "open_out"
    /\ \E ok \in BOOLEAN :
         IF ok
         THEN /\ out' = "out"
              /\ res' = Acquire(res, "out")
              /\ pc' = "ctx_new"
              /\ UNCHANGED <<from, log>>
         ELSE /\ log' = log \o CalleeDiag("bio_open_owner")
              /\ GotoEnd
              /\ UNCHANGED <<out, res>>
    /\ UNCHANGED <<optVars, argVars, in, ctx, params, pkey, ret>>
    /\ UNCHANGED <<cb, ncb, nprog, bits, pv, frag, run, vflag>>

\* lines 150-156
CtxNew ==
    /\ pc = "ctx_new"
    /\ \E ok \in BOOLEAN :
         IF ok
         THEN /\ ctx' = "ctx1"
              /\ res' = Acquire(res, "ctx1")
              /\ pc' = "resolve"
              /\ UNCHANGED <<from, log>>
         ELSE /\ log' = log \o <<Err("ERR_print_errors"),
                                 Err("paramgen context allocation failed")>>
              /\ GotoEnd
              /\ UNCHANGED <<ctx, res>>
    /\ UNCHANGED <<optVars, argVars, in, out, params, pkey, ret>>
    /\ UNCHANGED <<cb, ncb, nprog, bits, pv, frag, run, vflag>>

(***************************************************************************)
(* The parameter source, lines 157-197.                                    *)
(***************************************************************************)
FromGenerator_UnlessInfile == numbits > 0 /\ infile = "NULL"

FromGenerator_ZeroToo == numbits >= 0

\* line 157
FromGenerator == numbits > 0

OverCeiling_OffByOne(n) == n > OPENSSL_DSA_MAX_MODULUS_BITS + 1

\* line 158
OverCeiling(n) == n > OPENSSL_DSA_MAX_MODULUS_BITS

\* lines 166-170: what the run prints before generating, for verbose v
BannerOf(v) ==
    IF v # 0
    THEN <<Err("Generating DSA parameters"), Err("This could take some time")>>
    ELSE <<>>

\* lines 157-170: the advisory warning, the callback, the verbose banner
GenSetup ==
    /\ pc = "resolve"
    /\ FromGenerator
    /\ log' = log
              \o (IF OverCeiling(numbits)
                  THEN <<Err("Warning: not recommended")>> ELSE <<>>)
              \o BannerOf(verbose)
    /\ pc' = "gen_init"
    /\ UNCHANGED <<from, optVars, argVars, ptrVars, ret, res>>
    /\ UNCHANGED <<cb, ncb, nprog, bits, pv, frag, run, vflag>>

\* lines 171-176
GenInit ==
    /\ pc = "gen_init"
    /\ \E ok \in BOOLEAN :
         IF ok
         THEN /\ pc' = "gen_bits"
              /\ UNCHANGED <<from, log>>
         ELSE /\ log' = log \o <<Err("ERR_print_errors"),
                                 Err("paramgen init failed")>>
              /\ GotoEnd
    /\ UNCHANGED <<optVars, argVars, ptrVars, ret, res>>
    /\ UNCHANGED <<cb, ncb, nprog, bits, pv, frag, run, vflag>>

\* lines 177-182
GenBits ==
    /\ pc = "gen_bits"
    /\ \E ok \in BOOLEAN :
         IF ok
         THEN /\ bits' = num
              /\ pc' = "paramgen"
              /\ UNCHANGED <<from, log>>
         ELSE /\ log' = log \o <<Err("ERR_print_errors"),
                                 Err("setting bit length failed")>>
              /\ GotoEnd
              /\ UNCHANGED bits
    /\ UNCHANGED <<optVars, argVars, ptrVars, ret, res>>
    /\ UNCHANGED <<cb, ncb, nprog, pv, frag, run, vflag>>

\* line 293
symbols == <<".", "+", "*", "\n">>

Symbol_OffByOne(p) == IF p > 0 /\ p <= Len(symbols) THEN symbols[p] ELSE "?"

\* line 303: symbols is indexed from 0, sizeof(symbols) - 1 is its length
Symbol(p) == IF p >= 0 /\ p < Len(symbols) THEN symbols[p + 1] ELSE "?"

gendsa_cb_StopsWhenVerbose(v, p) ==
    IF v = 0
    THEN [p |-> p, b |-> "bio_err", wrote |-> <<>>, flushed |-> FALSE, r |-> 1]
    ELSE [p |-> p, b |-> "bio_err", wrote |-> <<Symbol(p)>>,
          flushed |-> TRUE, r |-> 0]

\* lines 291-308, for verbose v and keygen info p: the stream b is the
\* app data set at line 165, wrote is what BIO_write put on it, r the
\* value returned
gendsa_cb(v, p) ==
    IF v = 0
    THEN [p |-> p, b |-> "bio_err", wrote |-> <<>>, flushed |-> FALSE, r |-> 1]
    ELSE [p |-> p, b |-> "bio_err", wrote |-> <<Symbol(p)>>,
          flushed |-> TRUE, r |-> 1]

\* no invocation of the callback returned 0
GenerationGoesOn == \A i \in DOMAIN cb : cb[i].r # 0

\* line 183: EVP_PKEY_paramgen calls the callback set at line 164; a
\* callback that returned 0 stops the generation
GendsaCb ==
    /\ pc = "paramgen"
    /\ ncb < MaxCb
    /\ GenerationGoesOn
    /\ \E p \in Signals :
         /\ cb' = <<gendsa_cb(verbose, p)>>
         /\ nprog' = nprog + Len(cb'[1].wrote)
    /\ ncb' = ncb + 1
    /\ UNCHANGED <<pc, from, optVars, argVars, ptrVars, ret, res, log, bits,
                   pv, frag, run, vflag>>

\* lines 183-187
Paramgen ==
    /\ pc = "paramgen"
    /\ \E ok \in BOOLEAN :
         IF ok
         THEN /\ GenerationGoesOn
              /\ params' = "params"
              /\ res' = Acquire(res, "params")
              /\ pv' \in ParamChoices
              /\ pc' = "check_params"
              /\ UNCHANGED <<from, log>>
         ELSE /\ log' = log \o <<Err("ERR_print_errors"),
                                 Err("DSA key generation failed")>>
              /\ GotoEnd
              /\ UNCHANGED <<params, res, pv>>
    /\ cb' = <<>>
    /\ ncb' = 0
    /\ UNCHANGED <<optVars, argVars, in, out, ctx, pkey, ret>>
    /\ UNCHANGED <<nprog, bits, frag, run, vflag>>

\* lines 188-192: d2i_KeyParams_bio or PEM_read_bio_Parameters on `in`,
\* chosen by informat; an input that does not decode leaves params NULL
Load ==
    /\ pc = "resolve"
    /\ ~FromGenerator
    /\ \E ok \in BOOLEAN :
         /\ log' = Append(log, Rec("in", "decode", informat, ok))
         /\ IF ok
            THEN /\ params' = "params"
                 /\ res' = Acquire(res, "params")
                 /\ pv' \in ParamChoices
            ELSE UNCHANGED <<params, res, pv>>
    /\ pc' = "check_params"
    /\ UNCHANGED <<from, optVars, argVars, in, out, ctx, pkey, ret>>
    /\ UNCHANGED <<cb, ncb, nprog, bits, frag, run, vflag>>

ParamsMissing_Never == FALSE

\* line 193
ParamsMissing == params = "NULL"

\* lines 193-197
CheckParams ==
    /\ pc = "check_params"
    /\ IF ParamsMissing
       THEN /\ log' = log \o <<Err("unable to load DSA parameters"),
                               Err("ERR_print_errors")>>
            /\ GotoEnd
       ELSE /\ pc' = "text"
            /\ UNCHANGED <<from, log>>
    /\ UNCHANGED <<optVars, argVars, ptrVars, ret, res>>
    /\ UNCHANGED <<cb, ncb, nprog, bits, pv, frag, run, vflag>>

(***************************************************************************)
(* Rendering, lines 199-254.                                               *)
(***************************************************************************)
\* lines 199-201: the result of EVP_PKEY_print_params is not looked at
RenderText ==
    /\ pc = "text"
    /\ IF text = 1
       THEN \E ok \in BOOLEAN :
              log' = Append(log, Rec("out", "text", "-", ok))
       ELSE UNCHANGED log
    /\ pc' = "C"
    /\ UNCHANGED <<from, optVars, argVars, ptrVars, ret, res>>
    /\ UNCHANGED <<cb, ncb, nprog, bits, pv, frag, run, vflag>>

RECURSIVE BN_num_bits(_)
\* line 212
BN_num_bits(n) == IF n = 0 THEN 0 ELSE 1 + BN_num_bits(n \div 2)

\* line 211
BN_num_bytes(n) == (BN_num_bits(n) + 7) \div 8

RECURSIVE BN_bn2bin(_)
\* the big-endian minimal byte string of n
BN_bn2bin(n) ==
    IF n = 0 THEN <<>> ELSE Append(BN_bn2bin(n \div 256), n % 256)

\* print_bignum_var(bio_out, bn, var, len, data): the declaration of the
\* byte array var_len holding bn
print_bignum_var(bn, var, len) ==
    [name |-> [var |-> var, n |-> len], bytes |-> BN_bn2bin(bn)]

Fragment_RefsByBytes(v) ==
    LET bits_p == BN_num_bits(v[1])
        len == BN_num_bytes(v[1])
    IN  [fname |-> [var |-> "get_dsa", n |-> bits_p],
         decls |-> <<print_bignum_var(v[1], "dsap", bits_p),
                     print_bignum_var(v[2], "dsaq", bits_p),
                     print_bignum_var(v[3], "dsag", bits_p)>>,
         refs  |-> <<[var |-> "dsap", n |-> len],
                     [var |-> "dsaq", n |-> len],
                     [var |-> "dsag", n |-> len]>>]

\* lines 208-237: the fragment printed for params of value v = <<p, q, g>>:
\* the function name (line 216), the three array declarations (lines
\* 217-219) and the arrays named in the DSA_set0_pqg call (lines 225-230)
Fragment(v) ==
    LET bits_p == BN_num_bits(v[1])
    IN  [fname |-> [var |-> "get_dsa", n |-> bits_p],
         decls |-> <<print_bignum_var(v[1], "dsap", bits_p),
                     print_bignum_var(v[2], "dsaq", bits_p),
                     print_bignum_var(v[3], "dsag", bits_p)>>,
         refs  |-> <<[var |-> "dsap", n |-> bits_p],
                     [var |-> "dsaq", n |-> bits_p],
                     [var |-> "dsag", n |-> bits_p]>>]

\* lines 203-239: p, q, g are extracted into fresh BIGNUMs, data is
\* allocated and freed, the fragment goes to bio_out; line 193 has made
\* sure that params is not NULL here
RenderC ==
    /\ pc = "C"
    /\ IF C = 1
       THEN /\ res' = Free(Acquire(Acquire(Acquire(Acquire(res,
                          "bn_p"), "bn_q"), "bn_g"), "data"), "data")
            /\ log' = Append(log, Rec("bio_out", "C", "-", TRUE))
            /\ frag' = IF params = "NULL" THEN <<>> ELSE <<Fragment(pv)>>
       ELSE UNCHANGED <<res, log, frag>>
    /\ pc' = "serialize"
    /\ UNCHANGED <<from, optVars, argVars, ptrVars, ret>>
    /\ UNCHANGED <<cb, ncb, nprog, bits, pv, run, vflag>>

NooutPolicy_Off(of, gk, no) == no

\* lines 241-242
NooutPolicy(of, gk, no) == IF of = "ASN1" /\ gk = 1 THEN 1 ELSE no

\* lines 241-254: i2d_KeyParams_bio or PEM_write_bio_Parameters on `out`
WriteParams ==
    /\ pc = "serialize"
    /\ noout' = NooutPolicy(outformat, genkey, noout)
    /\ IF noout' = 0
       THEN \E ok \in BOOLEAN :
              IF ok
              THEN /\ log' = Append(log, Rec("out", "params", outformat, TRUE))
                   /\ pc' = "genkey"
                   /\ UNCHANGED from
              ELSE /\ log' = log
                             \o <<Rec("out", "params", outformat, FALSE),
                                  Err("unable to write DSA parameters"),
                                  Err("ERR_print_errors")>>
                   /\ GotoEnd
       ELSE /\ pc' = "genkey"
            /\ UNCHANGED <<from, log>>
    /\ UNCHANGED <<infile, outfile, informat, outformat, text, C, genkey,
                   nooutOpt, verbose, argVars, ptrVars, ret, res>>
    /\ UNCHANGED <<cb, ncb, nprog, bits, pv, frag, run, vflag>>

(***************************************************************************)
(* Key derivation, lines 255-280.                                          *)
(***************************************************************************)
\* line 255 with genkey unset, then line 280
NoGenkey ==
    /\ pc = "genkey"
    /\ genkey = 0
    /\ pc' = "ret0"
    /\ UNCHANGED <<from, optVars, argVars, ptrVars, ret, res, log>>
    /\ UNCHANGED <<cb, ncb, nprog, bits, pv, frag, run, vflag>>

\* lines 255-263: the generation context is released and replaced
KeyCtx ==
    /\ pc = "genkey"
    /\ genkey # 0
    /\ \E ok \in BOOLEAN :
         IF ok
         THEN /\ ctx' = "ctx2"
              /\ res' = Acquire(Free(res, ctx), "ctx2")
              /\ pc' = "keygen_init"
              /\ UNCHANGED <<from, log>>
         ELSE /\ ctx' = "NULL"
              /\ res' = Free(res, ctx)
              /\ log' = log \o <<Err("ERR_print_errors"),
                                 Err("keygen context allocation failed")>>
              /\ GotoEnd
    /\ UNCHANGED <<optVars, argVars, in, out, params, pkey, ret>>
    /\ UNCHANGED <<cb, ncb, nprog, bits, pv, frag, run, vflag>>

\* lines 264-268
KeygenInit ==
    /\ pc = "keygen_init"
    /\ \E ok \in BOOLEAN :
         IF ok
         THEN /\ pc' = "keygen"
              /\ UNCHANGED <<from, log>>
         ELSE /\ log' = log \o <<Err("unable to initialise for key generation"),
                                 Err("ERR_print_errors")>>
              /\ GotoEnd
    /\ UNCHANGED <<optVars, argVars, ptrVars, ret, res>>
    /\ UNCHANGED <<cb, ncb, nprog, bits, pv, frag, run, vflag>>

\* lines 269-273
Keygen ==
    /\ pc = "keygen"
    /\ \E ok \in BOOLEAN :
         IF ok
         THEN /\ pkey' = "pkey"
              /\ res' = Acquire(res, "pkey")
              /\ pc' = "write_key"
              /\ UNCHANGED <<from, log>>
         ELSE /\ log' = log \o <<Err("unable to generate key"),
                                 Err("ERR_print_errors")>>
              /\ GotoEnd
              /\ UNCHANGED <<pkey, res>>
    /\ UNCHANGED <<optVars, argVars, in, out, ctx, params, ret>>
    /\ UNCHANGED <<cb, ncb, nprog, bits, pv, frag, run, vflag>>

KeyFormat_AlwaysPEM(of) == "PEM"

\* lines 275-278: i2d_PrivateKey_bio for ASN1, PEM_write_bio_PrivateKey
\* otherwise
KeyFormat(of) == IF of = "ASN1" THEN "ASN1" ELSE "PEM"

\* lines 274-279: assert(private), then the key write, whose result i is
\* not looked at
WriteKey ==
    /\ pc = "write_key"
    /\ IF private = 0
       THEN /\ pc' = "abort"
            /\ UNCHANGED log
       ELSE /\ \E ok \in BOOLEAN :
                 log' = Append(log, Rec("out", "pkey", KeyFormat(outformat), ok))
            /\ pc' = "ret0"
    /\ UNCHANGED <<from, optVars, argVars, ptrVars, ret, res>>
    /\ UNCHANGED <<cb, ncb, nprog, bits, pv, frag, run, vflag>>

RetZero_Returns ==
    /\ pc = "ret0"
    /\ ret' = 0
    /\ pc' = "done"
    /\ from' = pc
    /\ UNCHANGED <<optVars, argVars, ptrVars, res, log>>
    /\ UNCHANGED <<cb, ncb, nprog, bits, pv, frag, run, vflag>>

\* line 280
RetZero ==
    /\ pc = "ret0"
    /\ ret' = 0
    /\ GotoEnd
    /\ UNCHANGED <<optVars, argVars, ptrVars, res, log>>
    /\ UNCHANGED <<cb, ncb, nprog, bits, pv, frag, run, vflag>>

\* lines 281-288: the end label
Cleanup ==
    /\ pc = "end"
    /\ res' = Free(Free(Free(Free(Free(res, in), out), ctx), pkey), params)
    /\ pc' = "done"
    /\ UNCHANGED <<from, optVars, argVars, ptrVars, ret, log>>
    /\ UNCHANGED <<cb, ncb, nprog, bits, pv, frag, run, vflag>>

Next ==
    \/ OptErr \/ OptHelp \/ OptInform \/ OptIn \/ OptOutform \/ OptOut
    \/ OptText \/ OptC \/ OptGenkey \/ OptRandProv \/ OptNoout \/ OptVerbose
    \/ OptEOF
    \/ ParseArgs \/ OpenIn \/ OpenOut \/ CtxNew
    \/ GenSetup \/ GenInit \/ GenBits \/ GendsaCb \/ Paramgen \/ Load
    \/ CheckParams
    \/ RenderText \/ RenderC \/ WriteParams
    \/ NoGenkey \/ KeyCtx \/ KeygenInit \/ Keygen \/ WriteKey
    \/ RetZero \/ Cleanup

Spec == Init /\ [][Next]_vars

\* dsaparam_main is called again in the same process: its locals start
\* afresh, the static verbose (line 25) keeps its value
Restart ==
    /\ pc = "done"
    /\ run < MaxRuns
    /\ run' = run + 1
    /\ pc' = "opts"
    /\ infile' = "NULL" /\ outfile' = "NULL"
    /\ informat' = "PEM" /\ outformat' = "PEM"
    /\ text' = 0 /\ C' = 0 /\ genkey' = 0 /\ noout' = 0 /\ nooutOpt' = 0
    /\ nrest' = 0 /\ num' = 0 /\ numbits' = -1 /\ private' = 0
    /\ in' = "NULL" /\ out' = "NULL" /\ ctx' = "NULL"
    /\ params' = "NULL" /\ pkey' = "NULL"
    /\ ret' = 1
    /\ res' = [r \in Resources |-> "none"]
    /\ log' = <<>>
    /\ from' = "none"
    /\ cb' = <<>> /\ ncb' = 0 /\ nprog' = 0
    /\ bits' = 0 /\ pv' = <<>> /\ frag' = <<>>
    /\ vflag' = 0
    /\ UNCHANGED verbose

\* several runs in one process
SpecRuns == Init /\ [][Next \/ Restart]_vars

\* one run, given that the argument vector is finite (the option loop
\* reaches OPT_EOF unless it left earlier) and every library call returns
SpecLive == Spec /\ WF_vars(OptEOF) /\ WF_vars(Next)

(***************************************************************************)
(* Observations on a state, used by the properties below.                  *)
(***************************************************************************)
\* some call wrote (or tried to write) artifact w
Attempted(w) == \E i \in DOMAIN log : log[i].w = w

\* artifact w reached its stream
Written(w) == \E i \in DOMAIN log : log[i].w = w /\ log[i].ok

\* the artifact writes of the run, in order
ArtLog == SelectSeq(log, LAMBDA e : e.w \in Artifacts)

\* the serialized records that reached `out`
OutRecords ==
    SelectSeq(log, LAMBDA e : e.s = "out" /\ e.w \in {"params", "pkey"} /\ e.ok)

\* the writes of the private key
KeyWrites == SelectSeq(log, LAMBDA e : e.w = "pkey")

\* the run returned
Returned == pc = "done"

\* -help: the run prints the summary and returns 0 without running a stage
HelpRun == from = "opts" /\ ret = 0

\* DomainParameters were obtained
Resolved == res["params"] # "none"

\* a KeyPair was derived
KeyDerived == res["pkey"] # "none"

\* the input was read and did not decode
LoadFailed == \E i \in DOMAIN log : log[i].s = "in" /\ ~log[i].ok

\* the input stream was read
InputRead == \E i \in DOMAIN log : log[i].s = "in"

\* a bit length and an input file were both given
Both == numbits > 0 /\ infile = "file"

\* a named output file was opened for writing (created or truncated)
OutFileOpened == outfile = "file" /\ res["out"] # "none"

\* where a stream's bytes go: `out` is the -out file, or stdout without -out
Target(s) ==
    CASE s = "out" -> IF outfile = "NULL" THEN "stdout" ELSE "outfile"
      [] s = "bio_out" -> "stdout"
      [] OTHER -> "stderr"

Rank(w) ==
    CASE w = "text" -> 1 [] w = "C" -> 2 [] w = "params" -> 3 [] OTHER -> 4

\* the position the run is at, or left for the end label
Pos == IF pc \in {"end", "done"} THEN from ELSE pc

PcRank(p) ==
    CASE p = "text" -> 1 [] p = "C" -> 2 [] p = "serialize" -> 3
      [] p = "genkey" -> 4 [] p = "keygen_init" -> 5 [] p = "keygen" -> 6
      [] p = "write_key" -> 7 [] p = "ret0" -> 8 [] OTHER -> 0

\* the run went through rendering step n (1 text, 2 source code, 3 serialized)
Passed(n) == PcRank(Pos) > n

\* artifact w is produced only with its flag, and with its flag whenever the
\* run went through step n
Gate(w, flag, n) ==
    /\ Attempted(w) => flag
    /\ Passed(n) /\ flag => Attempted(w)

\* every stage the run was asked for completed
StagesOK ==
    /\ Resolved
    /\ noout = 0 => Written("params")
    /\ genkey = 1 => KeyDerived /\ Written("pkey")

(***************************************************************************)
(* C1: a run returns 0 if and only if every requested stage completed      *)
(* (source resolution, the serialized-parameter write unless suppressed,   *)
(* key derivation and the private-key write when -genkey is given).        *)
(* Stated as claimed; the result of the key write is never looked at.      *)
(***************************************************************************)
CE_C1 == (Returned /\ ~HelpRun) => (ret = 0 <=> StagesOK)

(***************************************************************************)
(* C2 as claimed: a run given both a bit length and -in is rejected with a *)
(* nonzero result before a stream is opened or a stage runs.               *)
(***************************************************************************)
CE_C2 ==
    Both => /\ pc \in {"end", "done"}
            /\ from = "args"
            /\ ret # 0
            /\ \A r \in Resources : res[r] = "none"

(***************************************************************************)
(* C2 as amended: a run given both a bit length and -in is not rejected;   *)
(* it goes on to open the input stream (a failure to open it ends the run  *)
(* with a nonzero result), never reads it, and any parameters it has come  *)
(* from the generator.                                                     *)
(***************************************************************************)
Thm_C2 ==
    Both => /\ from # "args"
            /\ ~InputRead
            /\ Returned => \/ res["in"] = "freed"
                           \/ from = "open_in" /\ ret # 0

Witness_C2 == Both /\ Returned /\ ret = 0 /\ Resolved

(***************************************************************************)
(* C3: in a run with -genkey and DER output the serialized parameters are  *)
(* never written, whatever -noout says, and the output stream receives     *)
(* exactly one serialized record, the private key.  Stated for the runs    *)
(* that return 0.                                                          *)
(***************************************************************************)
CE_C3 ==
    (Returned /\ ~HelpRun /\ ret = 0 /\ genkey = 1 /\ outformat = "ASN1")
        => /\ ~Attempted("params")
           /\ Len(OutRecords) = 1
           /\ OutRecords[1].w = "pkey"

(***************************************************************************)
(* C4 as claimed: artifacts are produced only after the parameters are     *)
(* resolved, in the order text, source code, serialized parameters,        *)
(* private key, and each of the first three exactly when its own flag      *)
(* (-text, -C, absence of -noout) enables it.                              *)
(***************************************************************************)
Ordered ==
    \A i, j \in DOMAIN ArtLog :
        i < j => Rank(ArtLog[i].w) < Rank(ArtLog[j].w)

CE_C4 ==
    /\ ArtLog # <<>> => Resolved
    /\ Ordered
    /\ Gate("text", text = 1, 1)
    /\ Gate("C", C = 1, 2)
    /\ Gate("params", nooutOpt = 0, 3)

(***************************************************************************)
(* C4 as amended: the same, except that the serialized parameters are      *)
(* written exactly when -noout is absent and the run is not one with       *)
(* -genkey and DER output.                                                 *)
(***************************************************************************)
Thm_C4 ==
    /\ ArtLog # <<>> => Resolved
    /\ Ordered
    /\ Gate("text", text = 1, 1)
    /\ Gate("C", C = 1, 2)
    /\ Gate("params", nooutOpt = 0 /\ ~(genkey = 1 /\ outformat = "ASN1"), 3)

Witness_C4 ==
    /\ Returned /\ ret = 0
    /\ Written("text") /\ Written("C") /\ Written("params") /\ Written("pkey")

(***************************************************************************)
(* C5: every resource the run acquires is released exactly once: none is   *)
(* released twice, none is still held when the run returns.                *)
(***************************************************************************)
CE_C5 ==
    /\ \A r \in Resources : res[r] # "freed2"
    /\ Returned => \A r \in Resources : res[r] \in {"none", "freed"}

(***************************************************************************)
(* C6 as claimed: when the input does not decode, the run returns nonzero, *)
(* no artifact has been written and the output target is as it was before  *)
(* the run.                                                                *)
(***************************************************************************)
CE_C6 ==
    (Returned /\ LoadFailed)
        => /\ ret # 0
           /\ ArtLog = <<>>
           /\ ~OutFileOpened

(***************************************************************************)
(* C6 as amended: when the input does not decode and no bit length was     *)
(* requested, the run returns nonzero and no artifact has been written to  *)
(* any stream; the output stream, however, was opened for writing before   *)
(* the decode (a named output file has been created or truncated) and is   *)
(* closed again.                                                           *)
(***************************************************************************)
Thm_C6 ==
    (Returned /\ LoadFailed)
        => /\ ret # 0
           /\ numbits <= 0
           /\ ArtLog = <<>>
           /\ res["out"] = "freed"

Witness_C6 == Returned /\ LoadFailed /\ outfile = "file" /\ text = 1

(***************************************************************************)
(* C7: with a positive bit length the input stream is ignored: it is never *)
(* decoded and the run's result does not depend on it, so a run never ends *)
(* on account of the input file.                                           *)
(***************************************************************************)
CE_C7 == Both => ~InputRead /\ from # "open_in"

(***************************************************************************)
(* C8: key derivation is attempted only with -genkey, only with resolved   *)
(* parameters and only when the output stream was opened in private mode;  *)
(* while a KeyPair exists the parameters exist and private is set, and the *)
(* assertion at the key write never fails.                                 *)
(***************************************************************************)
Thm_C8 ==
    /\ pc # "abort"
    /\ pc \in {"keygen_init", "keygen", "write_key"}
         => /\ genkey = 1 /\ private = 1
            /\ params # "NULL" /\ res["params"] = "held"
            /\ res["out"] = "held"
    /\ res["pkey"] = "held" => res["params"] = "held" /\ private = 1
    /\ KeyDerived => genkey = 1

Witness_C8 == pc = "write_key" /\ res["pkey"] = "held"

CE_C10 ==
    \A i \in DOMAIN log :
        log[i].w \in Artifacts => Target(log[i].s) = Target("out")

(***************************************************************************)
(* C11: a run that returns nonzero has written a diagnostic message, and   *)
(* every failed operation of a run (a negative bit length and a failed     *)
(* private-key write included) is followed by a diagnostic message.        *)
(***************************************************************************)
Diagnosed == \E i \in DOMAIN log : log[i].s = "bio_err"

\* the failed call at position i of the log is followed by a message
Reported(i) == \E j \in DOMAIN log : j > i /\ log[j].s = "bio_err"

CE_C11 ==
    Returned
        => /\ ret # 0 => Diagnosed
           /\ \A i \in DOMAIN log : ~log[i].ok => Reported(i)

(***************************************************************************)
(* C12: an option error (an unknown or invalid flag, an invalid -inform or *)
(* -outform value) ends the run at once with a nonzero result: no stream   *)
(* is opened, no context is allocated, no stage runs.                      *)
(***************************************************************************)
OptionError ==
    \E i \in DOMAIN log : log[i].w = "Use -help for summary"

Thm_C12 ==
    OptionError
        => /\ pc \in {"end", "done"}
           /\ from = "opts"
           /\ ret # 0
           /\ \A r \in Resources : res[r] = "none"
           /\ \A i \in DOMAIN log : log[i].s = "bio_err"
           /\ in = "NULL" /\ out = "NULL" /\ ctx = "NULL"

Witness_C12 == OptionError /\ Returned /\ genkey = 1 /\ text = 1

(***************************************************************************)
(* C13: every invocation of gendsa_cb returns 1; with verbose off it       *)
(* writes nothing; with verbose on it writes exactly one character to      *)
(* bio_err and flushes it: '.', '+', '*', newline for signals 0, 1, 2, 3   *)
(* and '?' for every other signal.                                         *)
(***************************************************************************)
ExpectedChar(p) ==
    CASE p = 0 -> "." [] p = 1 -> "+" [] p = 2 -> "*" [] p = 3 -> "\n"
      [] OTHER -> "?"

Thm_C13 ==
    /\ \A i \in DOMAIN cb :
         /\ cb[i].r = 1
         /\ verbose = 0 => cb[i].wrote = <<>> /\ ~cb[i].flushed
         /\ verbose # 0 => /\ cb[i].wrote = <<ExpectedChar(cb[i].p)>>
                           /\ cb[i].b = "bio_err"
                           /\ cb[i].flushed
    /\ pc = "paramgen" => nprog = IF verbose = 0 THEN 0 ELSE ncb

Witness_C13 ==
    /\ pc = "paramgen" /\ verbose = 1 /\ ncb = 2
    /\ \E i \in DOMAIN cb : cb[i].p > 3 /\ cb[i].wrote = <<"?">>

IsBitLength(n, x) == x < 2 ^ n /\ (n > 0 => x >= 2 ^ (n - 1))

CE_C16 ==
    vflag = 0 => nprog = 0 /\ ~Attempted("Generating DSA parameters")

(***************************************************************************)
(* C17: a bit length above OPENSSL_DSA_MAX_MODULUS_BITS causes exactly one *)
(* advisory warning and does not stop the run: generation is invoked with  *)
(* the requested bit length and only generation or a later stage can fail  *)
(* the run from there on.                                                  *)
(***************************************************************************)
Warnings == SelectSeq(log, LAMBDA e : e.w = "Warning: not recommended")

\* the run is on the generation path, past lines 157-170
GenEntered ==
    /\ numbits > 0
    /\ Pos \in {"gen_init", "gen_bits", "paramgen", "check_params"}
         \/ PcRank(Pos) > 0

Thm_C17 ==
    /\ Len(Warnings) <= 1
    /\ \A i \in DOMAIN Warnings : Warnings[i].s = "bio_err"
    /\ (GenEntered /\ numbits > OPENSSL_DSA_MAX_MODULUS_BITS)
         => /\ Len(Warnings) = 1
            /\ Pos # "resolve"
            /\ (Pos \in {"paramgen", "check_params"} \/ PcRank(Pos) > 0)
                 => bits = numbits
            /\ (Returned /\ PcRank(Pos) = 8) => ret = 0

Witness_C17 ==
    /\ Returned /\ ret = 0 /\ numbits > OPENSSL_DSA_MAX_MODULUS_BITS
    /\ Len(Warnings) = 1 /\ bits = numbits

(***************************************************************************)
(* C18: parameters are generated if and only if there is exactly one       *)
(* positional argument and it parses to a number above 0; a single         *)
(* positional argument that does not parse or is negative ends the run     *)
(* with a nonzero result; otherwise (none, a 0, several) the positional    *)
(* arguments are ignored and the parameters are read from the input stream *)
(* in the configured input format.                                         *)
(***************************************************************************)
\* the run went through the choice of the parameter source (line 157)
SourceChosen ==
    Pos \in {"gen_init", "gen_bits", "paramgen", "check_params"}
        \/ PcRank(Pos) > 0

Decodes == SelectSeq(log, LAMBDA e : e.s = "in")

Unparsable == Attempted("opt_int")

Thm_C18 ==
    /\ SourceChosen
         => /\ (nrest = 1 /\ num > 0) <=> ~InputRead
            /\ InputRead => /\ Len(Decodes) = 1
                            /\ Decodes[1].f = informat
                            /\ bits = 0
            /\ ~InputRead /\ Resolved => bits = num
    /\ (pc # "opts" /\ pc # "args" /\ from # "opts"
          /\ nrest = 1 /\ (Unparsable \/ num < 0))
         => /\ pc \in {"end", "done"}
            /\ from = "args"
            /\ ret # 0
            /\ ~InputRead /\ ~Resolved
    /\ from = "args" => nrest = 1 /\ (Unparsable \/ num < 0)

Witness_C18 ==
    /\ Returned /\ ret = 0 /\ nrest = 1 /\ num = 0
    /\ InputRead /\ informat = "ASN1"

(***************************************************************************)
(* C19: every run terminates: it reaches the return, with result 0 or a    *)
(* nonzero result, through the end label; no stage is entered again, and   *)
(* nothing happens after the return.                                       *)
(***************************************************************************)
StageNo(p) ==
    CASE p = "opts" -> 1 [] p = "args" -> 2 [] p = "open_in" -> 3
      [] p = "open_out" -> 4 [] p = "ctx_new" -> 5 [] p = "resolve" -> 6
      [] p = "gen_init" -> 7 [] p = "gen_bits" -> 8 [] p = "paramgen" -> 9
      [] p = "check_params" -> 10 [] p = "text" -> 11 [] p = "C" -> 12
      [] p = "serialize" -> 13 [] p = "genkey" -> 14
      [] p = "keygen_init" -> 15 [] p = "keygen" -> 16
      [] p = "write_key" -> 17 [] p = "ret0" -> 18 [] p = "end" -> 19
      [] p = "done" -> 20 [] OTHER -> 0

\* the option loop and the generator's calls of the callback stay where
\* they are; every other step moves forward
Forward ==
    \/ StageNo(pc) < StageNo(pc')
    \/ pc' = pc /\ pc \in {"opts", "paramgen"}

Thm_C19 ==
    /\ <>(pc = "done")
    /\ [](pc = "done" => ret \in {0, 1} /\ (ret = 0 => from \in {"ret0", "opts"}))
    /\ [][Forward]_vars
    /\ [][pc' = "done" => pc = "end"]_vars
    /\ [][pc # "done"]_vars

Witness_C19 == Returned /\ ret # 0 /\ from = "keygen" /\ res["ctx2"] = "freed"

====
